---- MODULE Spec2Model ----
(***************************************************************************)
(* A model of hexo.py, the Hexo HTML -> Markdown converter.                *)
(*                                                                         *)
(* Python strings are sequences of one-character strings, so that          *)
(* slicing, strptime, startswith, strip and join are modelled by what they *)
(* do to the characters.  A Python exception is a result record with       *)
(* ok = FALSE and the exception's name in err.                             *)
(***************************************************************************)
EXTENDS Integers, Sequences, FiniteSets, TLC

(***************************************************************************)
(* Python values                                                           *)
(***************************************************************************)

\* Python's None, kept a sequence so that it compares with any string
None == << "<None>" >>

\* a normal return of a function that may raise
Ok(v) == [ok |-> TRUE, val |-> v, err |-> "none"]

\* an exception propagating out of a function
Raise(e) == [ok |-> FALSE, val |-> <<>>, err |-> e]

NL == "\n"

Digit == <<"0", "1", "2", "3", "4", "5", "6", "7", "8", "9">>

IsDigit(c) == \E d \in 1..10 : Digit[d] = c

DigitVal(c) == (CHOOSE d \in 1..10 : Digit[d] = c) - 1

\* int(s) of a non-empty run of at most 6 digits
RECURSIVE ToInt(_)
ToInt(s) ==
    IF s = <<>> THEN 0
    ELSE 10 * ToInt(SubSeq(s, 1, Len(s) - 1)) + DigitVal(s[Len(s)])

\* "%0wd" % n
RECURSIVE Pad(_, _)
Pad(n, w) ==
    IF w = 0 THEN <<>>
    ELSE Pad(n \div 10, w - 1) \o << Digit[(n % 10) + 1] >>

\* s.startswith(p)
StartsWith(s, p) == Len(s) >= Len(p) /\ SubSeq(s, 1, Len(p)) = p

\* sep.join(parts)
RECURSIVE Join(_, _)
Join(sep, parts) ==
    IF parts = <<>> THEN <<>>
    ELSE IF Len(parts) = 1 THEN parts[1]
    ELSE parts[1] \o sep \o Join(sep, Tail(parts))

\* concatenation of a sequence of strings
RECURSIVE Concat(_)
Concat(parts) ==
    IF parts = <<>> THEN <<>> ELSE parts[1] \o Concat(Tail(parts))

IsSpace(c) == c \in {" ", "\n", "\t"}

\* s.lstrip()
RECURSIVE LStrip(_)
LStrip(s) ==
    IF s # <<>> /\ IsSpace(s[1]) THEN LStrip(Tail(s)) ELSE s

\* s.rstrip()
RECURSIVE RStrip(_)
RStrip(s) ==
    IF s # <<>> /\ IsSpace(s[Len(s)]) THEN RStrip(SubSeq(s, 1, Len(s) - 1)) ELSE s

\* s.strip()
Strip(s) == LStrip(RStrip(s))

\* s.split("\n"): the lines of a text, a trailing newline giving a last empty line
RECURSIVE SplitLines(_)
SplitLines(s) ==
    IF \A i \in 1..Len(s) : s[i] # NL THEN << s >>
    ELSE LET i == CHOOSE k \in 1..Len(s) :
                      s[k] = NL /\ \A j \in 1..(k - 1) : s[j] # NL
         IN  << SubSeq(s, 1, i - 1) >> \o SplitLines(SubSeq(s, i + 1, Len(s)))

(***************************************************************************)
(* convert_utc_to_timezone: datetime.strptime                              *)
(***************************************************************************)

IsLeap(y) == (y % 4 = 0 /\ y % 100 # 0) \/ y % 400 = 0

DaysInMonth(y, m) ==
    IF m = 2 THEN (IF IsLeap(y) THEN 29 ELSE 28)
    ELSE IF m \in {4, 6, 9, 11} THEN 30 ELSE 31

\* the end (exclusive) of the maximal run of digits of s that starts at i
DigitRunEnd(s, i) ==
    CHOOSE j \in i..(Len(s) + 1) :
        /\ \A k \in i..(j - 1) : IsDigit(s[k])
        /\ (j = Len(s) + 1 \/ ~IsDigit(s[j]))

\* the regular expression strptime compiles for one directive accepts the run
FieldOk(f, run) ==
    LET n == Len(run)
        v == ToInt(run)
    IN  CASE f = "Y" -> n = 4
          [] f = "m" -> n \in 1..2 /\ v \in 1..12
          [] f = "d" -> n \in 1..2 /\ v \in 1..31
          [] f = "H" -> n \in 1..2 /\ v \in 0..23
          [] f = "M" -> n \in 1..2 /\ v \in 0..59
          [] f = "S" -> n \in 1..2 /\ v \in 0..61
          [] f = "f" -> n \in 1..6

IsDirective(p) == p \in {"Y", "m", "d", "H", "M", "S", "f"}

\* "%Y-%m-%dT%H:%M:%S.%f"
FormatFrac == <<"Y", "-", "m", "-", "d", "T", "H", ":", "M", ":", "S", ".", "f">>

\* "%Y-%m-%dT%H:%M:%S"
FormatWhole == <<"Y", "-", "m", "-", "d", "T", "H", ":", "M", ":", "S">>

NoFields == [Y |-> <<>>, m |-> <<>>, d |-> <<>>, H |-> <<>>, M |-> <<>>, S |-> <<>>, f |-> <<>>]

\* match s from position i against the items k.. of the format
RECURSIVE MatchFormat(_, _, _, _, _)
MatchFormat(s, i, fmt, k, acc) ==
    IF k > Len(fmt)
    THEN (IF i = Len(s) + 1 THEN Ok(acc) ELSE Raise("ValueError"))
    ELSE IF IsDirective(fmt[k])
    THEN LET e   == DigitRunEnd(s, i)
             run == SubSeq(s, i, e - 1)
         IN  IF FieldOk(fmt[k], run)
             THEN MatchFormat(s, e, fmt, k + 1, [acc EXCEPT ![fmt[k]] = run])
             ELSE Raise("ValueError")
    ELSE IF i <= Len(s) /\ s[i] = fmt[k]
    THEN MatchFormat(s, i + 1, fmt, k + 1, acc)
    ELSE Raise("ValueError")

\* microseconds of the %f digits, padded on the right to six digits
RECURSIVE Micro(_)
Micro(run) ==
    IF run = <<>> THEN 0
    ELSE IF Len(run) < 6 THEN Micro(run \o <<"0">>)
    ELSE ToInt(run)

\* the datetime of the fields strptime matched, or ValueError: year, day of
\* the month or second out of range
MakeDatetime(m) ==
    IF ~m.ok THEN m
    ELSE LET Y  == ToInt(m.val.Y)
             mo == ToInt(m.val.m)
             d  == ToInt(m.val.d)
             S  == ToInt(m.val.S)
         IN  IF Y < 1 \/ d > DaysInMonth(Y, mo) \/ S > 59
             THEN Raise("ValueError")
             ELSE Ok([year |-> Y, month |-> mo, day |-> d,
                      hour |-> ToInt(m.val.H), minute |-> ToInt(m.val.M),
                      second |-> S, microsecond |-> Micro(m.val.f)])

\* datetime.strptime(s, fmt): the naive datetime, or ValueError
strptime(s, fmt) == MakeDatetime(MatchFormat(s, 1, fmt, 1, NoFields))

(***************************************************************************)
(* convert_utc_to_timezone: pytz and datetime arithmetic                   *)
(***************************************************************************)

MINYEAR == 1

MAXYEAR == 9999

\* date.toordinal() relative to 1970-01-01 (proleptic Gregorian calendar)
DaysFromCivil(y, m, d) ==
    LET yy  == IF m <= 2 THEN y - 1 ELSE y
        era == yy \div 400
        yoe == yy - era * 400
        mp  == IF m > 2 THEN m - 3 ELSE m + 9
        doy == (153 * mp + 2) \div 5 + d - 1
        doe == yoe * 365 + yoe \div 4 - yoe \div 100 + doy
    IN  era * 146097 + doe - 719468

\* date.fromordinal(): the year, month and day of a day number
CivilFromDays(z) ==
    LET zz  == z + 719468
        era == zz \div 146097
        doe == zz - era * 146097
        yoe == (doe - doe \div 1460 + doe \div 36524 - doe \div 146096) \div 365
        doy == doe - (365 * yoe + yoe \div 4 - yoe \div 100)
        mp  == (5 * doy + 2) \div 153
        d   == doy - (153 * mp + 2) \div 5 + 1
        m   == IF mp < 10 THEN mp + 3 ELSE mp - 9
        y   == yoe + era * 400 + (IF m <= 2 THEN 1 ELSE 0)
    IN  [year |-> y, month |-> m, day |-> d]

\* the UTC transition times of pytz.timezone('Asia/Shanghai') as
\* <<day number, second of the day, UTC offset in seconds from then on>>
ShanghaiTransitions == <<
    <<-25203, 57257, 28800>>,
    <<-18527, 57600, 32400>>, <<-18356, 54000, 28800>>,
    <<-10807, 57600, 32400>>, <<-10673, 54000, 28800>>,
    <<-10520, 57600, 32400>>, <<-10288, 54000, 28800>>,
    <<-10198, 57600, 32400>>, <<-8888, 54000, 28800>>,
    <<-8633, 57600, 32400>>, <<-8494, 54000, 28800>>,
    <<-8298, 57600, 32400>>, <<-8098, 54000, 28800>>,
    <<-7916, 57600, 32400>>, <<-7763, 54000, 28800>>,
    <<-7551, 57600, 32400>>, <<-7524, 54000, 28800>>,
    <<5966, 64800, 32400>>, <<6099, 61200, 28800>>,
    <<6309, 64800, 32400>>, <<6463, 61200, 28800>>,
    <<6680, 64800, 32400>>, <<6827, 61200, 28800>>,
    <<7044, 64800, 32400>>, <<7198, 61200, 28800>>,
    <<7408, 64800, 32400>>, <<7562, 61200, 28800>>,
    <<7772, 64800, 32400>>, <<7926, 61200, 28800>> >>

\* local mean time of Shanghai, which pytz rounds to whole minutes
ShanghaiLMT == 29160

\* the zones of the time zone database this model knows
KnownZones == {"UTC", "Asia/Shanghai"}

\* tzinfo.utcoffset at the UTC instant (days, secs): the last transition at or before it
UtcOffset(tz, days, secs) ==
    IF tz = "UTC" THEN 0
    ELSE LET past == {i \in 1..Len(ShanghaiTransitions) :
                         \/ ShanghaiTransitions[i][1] < days
                         \/ /\ ShanghaiTransitions[i][1] = days
                            /\ ShanghaiTransitions[i][2] <= secs}
         IN  IF past = {} THEN ShanghaiLMT
             ELSE LET last == CHOOSE i \in past : \A j \in past : j <= i
                  IN  ShanghaiTransitions[last][3]

\* the datetime of a day number and a second of that day, or OverflowError
OnDay(c, lsec, microsecond) ==
    IF c.year > MAXYEAR \/ c.year < MINYEAR THEN Raise("OverflowError")
    ELSE Ok([year |-> c.year, month |-> c.month, day |-> c.day,
             hour |-> lsec \div 3600, minute |-> (lsec % 3600) \div 60,
             second |-> lsec % 60, microsecond |-> microsecond])

\* dt + timedelta(seconds = offset), dt given as day number and second of the day
AddOffset(days, secs, offset, microsecond) ==
    OnDay(CivilFromDays(days + (secs + offset) \div 86400),
          (secs + offset) % 86400, microsecond)

\* AddOffset that adds the offset to the clock and leaves the date alone
AddOffset_no_carry(days, secs, offset, microsecond) ==
    OnDay(CivilFromDays(days), (secs + offset) % 86400, microsecond)

\* the offset of the zone at the UTC instant, added to the instant
Shift(tz, days, secs, microsecond) ==
    AddOffset(days, secs, UtcOffset(tz, days, secs), microsecond)

\* Shift with the date left alone
Shift_no_carry(tz, days, secs, microsecond) ==
    AddOffset_no_carry(days, secs, UtcOffset(tz, days, secs), microsecond)

\* astimezone that adds the offset to the clock and leaves the date alone
astimezone_no_carry(dt, tz) ==
    IF tz = "UTC" THEN Ok(dt)
    ELSE Shift_no_carry(tz, DaysFromCivil(dt.year, dt.month, dt.day),
                        dt.hour * 3600 + dt.minute * 60 + dt.second, dt.microsecond)

\* utc_time.astimezone(target_zone): the wall clock in the zone, or OverflowError
astimezone(dt, tz) ==
    IF tz = "UTC" THEN Ok(dt)
    ELSE Shift(tz, DaysFromCivil(dt.year, dt.month, dt.day),
               dt.hour * 3600 + dt.minute * 60 + dt.second, dt.microsecond)

\* dt.strftime("%Y-%m-%d %H:%M:%S")
strftime(dt) ==
    Pad(dt.year, 4) \o <<"-">> \o Pad(dt.month, 2) \o <<"-">> \o Pad(dt.day, 2)
        \o <<" ">> \o Pad(dt.hour, 2) \o <<":">> \o Pad(dt.minute, 2)
        \o <<":">> \o Pad(dt.second, 2)

\* time_str[:-1]
DropLast(s) == IF s = <<>> THEN <<>> ELSE SubSeq(s, 1, Len(s) - 1)

\* the except clause: the second format is tried when the first raised
OrWhole(first, body) == IF first.ok THEN first ELSE strptime(body, FormatWhole)

\* local_time.strftime(...) of the outcome of astimezone
Formatted(local) == IF ~local.ok THEN local ELSE Ok(strftime(local.val))

\* the steps of convert_utc_to_timezone after the parse
Localized(parsed, tz_str) ==
    IF ~parsed.ok THEN Raise("ValueError")
    ELSE IF tz_str \notin KnownZones THEN Raise("UnknownTimeZoneError")
    ELSE Formatted(astimezone(parsed.val, tz_str))

convert_utc_to_timezone(time_str, tz_str) ==
    Localized(OrWhole(strptime(DropLast(time_str), FormatFrac), DropLast(time_str)), tz_str)

(***************************************************************************)
(* State                                                                   *)
(***************************************************************************)

VARIABLES
    files,          \* batch: the .html and other files os.walk yields, in its order
    idx,            \* batch: position of the loop in files
    pc,             \* batch: "start", "walk", "done" or "aborted"
    out_exists,     \* batch: whether the output directory exists
    out_dir,        \* batch: the files of the output directory, name -> content
    printed,        \* batch: the lines printed so far
    front_matter,   \* batch: the front_matter dict of the last file written
    error,          \* batch: the exception that ended the run
    time_str,       \* convert_utc_to_timezone: argument
    tz_str,         \* convert_utc_to_timezone: argument
    time_res,       \* convert_utc_to_timezone: outcome
    data,           \* generate_front_matter: argument
    fm_res,         \* generate_front_matter: outcome
    post_body,      \* html_to_markdown: the children of div.post-body
    md_res          \* html_to_markdown: outcome

batchVars == <<files, idx, pc, out_exists, out_dir, printed, front_matter, error>>

timeVars == <<time_str, tz_str, time_res>>

renderVars == <<data, fm_res>>

bodyVars == <<post_body, md_res>>

vars == <<files, idx, pc, out_exists, out_dir, printed, front_matter, error,
          time_str, tz_str, time_res, data, fm_res, post_body, md_res>>

\* the outcome of a function that has not been called
NotCalled == Raise("not called")

Called(res) == res # NotCalled

BatchIdle ==
    /\ files = <<>>
    /\ idx = 1
    /\ pc = "idle"
    /\ out_exists = FALSE
    /\ out_dir = <<>>
    /\ printed = <<>>
    /\ front_matter = <<>>
    /\ error = "none"

TimeIdle == time_str = <<>> /\ tz_str = "UTC" /\ time_res = NotCalled

RenderIdle == data = <<>> /\ fm_res = NotCalled

BodyIdle == post_body = [found |-> FALSE, children |-> <<>>] /\ md_res = NotCalled

(***************************************************************************)
(* Timestamps given to convert_utc_to_timezone                             *)
(***************************************************************************)

TimeYears == {1988, 1991, 2023, 2024, 9999}

TimeMonths == {1, 2, 4, 9, 12}

TimeDays == {1, 14, 28, 29, 31}

TimeHours == {0, 10, 15, 16, 17, 23}

TimeMinutes == {0, 59}

TimeSeconds == {0, 45}

TimeForms == {"whole", "frac3", "frac6", "noZ", "fracNoZ", "X", "offset",
              "unpadded", "space", "date"}

TimeZones == {"UTC", "Asia/Shanghai", "Mars/Olympus"}

IsoDate(y, m, d) == Pad(y, 4) \o <<"-">> \o Pad(m, 2) \o <<"-">> \o Pad(d, 2)

IsoClock(H, M, S) == Pad(H, 2) \o <<":">> \o Pad(M, 2) \o <<":">> \o Pad(S, 2)

\* a timestamp string as a page may carry it
TimeString(y, m, d, H, M, S, form) ==
    LET whole == IsoDate(y, m, d) \o <<"T">> \o IsoClock(H, M, S)
    IN  CASE form = "whole"    -> whole \o <<"Z">>
          [] form = "frac3"    -> whole \o <<".", "1", "2", "3", "Z">>
          [] form = "frac6"    -> whole \o <<".", "9", "9", "9", "9", "9", "9", "Z">>
          [] form = "noZ"      -> whole
          [] form = "fracNoZ"  -> whole \o <<".", "1", "2", "3">>
          [] form = "X"        -> whole \o <<"X">>
          [] form = "offset"   -> whole \o <<"+", "0", "8", ":", "0", "0">>
          [] form = "unpadded" -> Pad(y, 4) \o <<"-">> \o Pad(m, 1) \o <<"-">> \o Pad(d % 10, 1)
                                    \o <<"T">> \o Pad(H % 10, 1) \o <<":">> \o Pad(M % 10, 1)
                                    \o <<":">> \o Pad(S % 10, 1) \o <<"Z">>
          [] form = "space"    -> IsoDate(y, m, d) \o <<" ">> \o IsoClock(H, M, S) \o <<"Z">>
          [] form = "date"     -> IsoDate(y, m, d) \o <<"Z">>

TimeStrings ==
    { TimeString(y, m, d, H, M, S, form) :
        y \in TimeYears, m \in TimeMonths, d \in TimeDays, H \in TimeHours,
        M \in TimeMinutes, S \in TimeSeconds, form \in TimeForms }

TimeInit ==
    /\ time_str \in TimeStrings
    /\ tz_str \in TimeZones
    /\ time_res = NotCalled
    /\ BatchIdle /\ RenderIdle /\ BodyIdle

\* a call of convert_utc_to_timezone(time_str, tz_str)
CallConvert ==
    /\ ~Called(time_res)
    /\ time_res' = convert_utc_to_timezone(time_str, tz_str)
    /\ UNCHANGED <<time_str, tz_str, batchVars, renderVars, bodyVars>>

TimeNext == CallConvert

TimeSpec == TimeInit /\ [][TimeNext]_vars

(***************************************************************************)
(* Claims about convert_utc_to_timezone                                    *)
(***************************************************************************)

DigitsAt(s, ps) == \A i \in ps : IsDigit(s[i])

\* s begins with YYYY-MM-DDTHH:MM:SS, every field zero-padded to its width
HasIsoPrefix(s) ==
    /\ Len(s) >= 19
    /\ DigitsAt(s, {1, 2, 3, 4, 6, 7, 9, 10, 12, 13, 15, 16, 18, 19})
    /\ s[5] = "-" /\ s[8] = "-" /\ s[11] = "T" /\ s[14] = ":" /\ s[17] = ":"

\* the calendar fields a timestamp names, read off by position
FieldsOf(s) ==
    [year |-> ToInt(SubSeq(s, 1, 4)), month |-> ToInt(SubSeq(s, 6, 7)),
     day |-> ToInt(SubSeq(s, 9, 10)), hour |-> ToInt(SubSeq(s, 12, 13)),
     minute |-> ToInt(SubSeq(s, 15, 16)), second |-> ToInt(SubSeq(s, 18, 19))]

\* s is YYYY-MM-DDTHH:MM:SSZ or YYYY-MM-DDTHH:MM:SS.ffffffZ and names a real instant
ValidUtcTimestamp(s) ==
    /\ HasIsoPrefix(s)
    /\ \/ Len(s) = 20
       \/ /\ Len(s) \in 22..27
          /\ s[20] = "."
          /\ DigitsAt(s, 21..(Len(s) - 1))
    /\ s[Len(s)] = "Z"
    /\ LET f == FieldsOf(s)
       IN  /\ f.year >= 1
           /\ f.month \in 1..12
           /\ f.day \in 1..DaysInMonth(f.year, f.month)
           /\ f.hour <= 23 /\ f.minute <= 59 /\ f.second <= 59

\* the wall clock eight hours after f, by carrying hour -> day -> month -> year
EightHoursLater(f) ==
    LET h    == f.hour + 8
        over == h >= 24
        d    == IF over THEN f.day + 1 ELSE f.day
        dOver == d > DaysInMonth(f.year, f.month)
        m    == IF dOver THEN f.month + 1 ELSE f.month
        mOver == m > 12
    IN  [year |-> IF mOver THEN f.year + 1 ELSE f.year,
         month |-> IF mOver THEN 1 ELSE m,
         day |-> IF dOver THEN 1 ELSE d,
         hour |-> IF over THEN h - 24 ELSE h,
         minute |-> f.minute, second |-> f.second]

\* the decimal digit of n at the place p (1, 10, 100 or 1000)
DigitAt(n, p) == Digit[((n \div p) % 10) + 1]

\* "YYYY-MM-DD HH:MM:SS" of the fields f
WallClock(f) ==
    << DigitAt(f.year, 1000), DigitAt(f.year, 100), DigitAt(f.year, 10),
       DigitAt(f.year, 1), "-", DigitAt(f.month, 10), DigitAt(f.month, 1), "-",
       DigitAt(f.day, 10), DigitAt(f.day, 1), " ",
       DigitAt(f.hour, 10), DigitAt(f.hour, 1), ":",
       DigitAt(f.minute, 10), DigitAt(f.minute, 1), ":",
       DigitAt(f.second, 10), DigitAt(f.second, 1) >>

\* C6 as stated: every valid UTC timestamp comes back as the wall clock
\* exactly eight hours later for Asia/Shanghai, and unchanged for UTC.
C6_EveryTimestampPlusEight ==
    (Called(time_res) /\ ValidUtcTimestamp(time_str)) =>
        /\ tz_str = "Asia/Shanghai" =>
               time_res = Ok(WallClock(EightHoursLater(FieldsOf(time_str))))
        /\ tz_str = "UTC" => time_res = Ok(WallClock(FieldsOf(time_str)))

\* the instants from 1992-01-01T00:00:00Z to 9999-12-31T15:59:59Z
SinceFixedOffset(f) ==
    /\ f.year >= 1992
    /\ ~(f.year = MAXYEAR /\ f.month = 12 /\ f.day = 31 /\ f.hour >= 16)

\* C6 amended: a valid UTC timestamp from 1992-01-01T00:00:00Z up to
\* 9999-12-31T15:59:59Z comes back for Asia/Shanghai as the wall clock exactly
\* eight hours later, carried across day, month and year ends, fraction
\* dropped, as YYYY-MM-DD HH:MM:SS; every valid UTC timestamp comes back
\* unchanged in that format for UTC.
C6_PlusEightSince1992 ==
    (Called(time_res) /\ ValidUtcTimestamp(time_str)) =>
        /\ (tz_str = "Asia/Shanghai" /\ SinceFixedOffset(FieldsOf(time_str))) =>
               time_res = Ok(WallClock(EightHoursLater(FieldsOf(time_str))))
        /\ tz_str = "UTC" => time_res = Ok(WallClock(FieldsOf(time_str)))

\* a converted timestamp of New Year's Eve whose Shanghai wall clock is in the next year
C6_Witness ==
    /\ Called(time_res) /\ time_res.ok
    /\ ValidUtcTimestamp(time_str)
    /\ tz_str = "Asia/Shanghai"
    /\ Len(time_str) > 20
    /\ FieldsOf(time_str).year = 2023
    /\ FieldsOf(time_str).month = 12
    /\ FieldsOf(time_str).day = 31
    /\ FieldsOf(time_str).hour >= 16
    /\ SubSeq(time_res.val, 1, 10) = <<"2", "0", "2", "4", "-", "0", "1", "-", "0", "1">>

\* time_str ends in Z and the rest parses under one of the two strptime formats
MatchesAcceptedPattern(s) ==
    /\ s # <<>>
    /\ s[Len(s)] = "Z"
    /\ \/ strptime(DropLast(s), FormatFrac).ok
       \/ strptime(DropLast(s), FormatWhole).ok

\* C7 as stated: a string that matches neither pattern, the trailing Z
\* included, never gets a result.
C7_NoResultWithoutPattern ==
    (Called(time_res) /\ ~MatchesAcceptedPattern(time_str)) => ~time_res.ok

(***************************************************************************)
(* generate_front_matter                                                   *)
(***************************************************************************)

\* str(v) as an f-string formats it
PyStr(v) == IF v = None THEN <<"N", "o", "n", "e">> ELSE v

\* f"  - {tag}" for each tag
TagLines(tags) == [i \in 1..Len(tags) |-> <<" ", " ", "-", " ">> \o PyStr(tags[i])]

generate_front_matter(d) ==
    LET head == <<"-", "-", "-", "\n">>
                  \o <<"t", "i", "t", "l", "e", ":", " ">> \o PyStr(d.title) \o <<NL>>
                  \o <<"u", "p", "d", "a", "t", "e", "d", ":", " ">> \o PyStr(d.updated) \o <<NL>>
                  \o <<"d", "a", "t", "e", ":", " ">> \o PyStr(d.date) \o <<NL>>
                  \o <<"c", "a", "t", "e", "g", "o", "r", "i", "e", "s", ":", " ">> \o PyStr(d.categories) \o <<NL>>
        fm   == IF d.tags # <<>>
                THEN head \o <<"t", "a", "g", "s", ":", "\n">> \o Join(<<NL>>, TagLines(d.tags))
                ELSE head
    IN  fm \o <<"\n", "-", "-", "-", "\n", "\n">>

MaxTags == 2

TagValues == {<<"x">>, <<"y">>}

\* the lists of at most n tags
TagLists(n) == UNION {[1..k -> TagValues] : k \in 0..n}

Titles == {<<"A">>, <<"M", "y", " ", "p", "o", "s", "t">>}

LocalTimes == {<<"2", "0", "2", "4", "-", "0", "1", "-", "0", "1", " ", "0", "0", ":", "0", "0", ":", "0", "0">>, <<"2", "0", "2", "4", "-", "0", "1", "-", "0", "2", " ", "0", "0", ":", "0", "0", ":", "0", "0">>}

Categories == {None, <<"T", "e", "c", "h">>}

FrontMatters ==
    [title : Titles, updated : LocalTimes, date : LocalTimes,
     categories : Categories, tags : TagLists(MaxTags)]

RenderInit ==
    /\ data \in FrontMatters
    /\ fm_res = NotCalled
    /\ BatchIdle /\ TimeIdle /\ BodyIdle

\* a call of generate_front_matter(data)
CallRender ==
    /\ ~Called(fm_res)
    /\ fm_res' = Ok(generate_front_matter(data))
    /\ UNCHANGED <<data, batchVars, timeVars, bodyVars>>

RenderNext == CallRender

RenderSpec == RenderInit /\ [][RenderNext]_vars

(***************************************************************************)
(* Claims about generate_front_matter                                      *)
(***************************************************************************)

\* the lines of a text, each ended by a newline
LinesOf(s) ==
    LET parts == SplitLines(s)
    IN  IF s # <<>> /\ s[Len(s)] = NL
        THEN SubSeq(parts, 1, Len(parts) - 1)
        ELSE parts

\* the lines the front matter of d is specified to have
SpecifiedLines(d) ==
    << <<"-", "-", "-">>,
       <<"t", "i", "t", "l", "e", ":", " ">> \o PyStr(d.title),
       <<"u", "p", "d", "a", "t", "e", "d", ":", " ">> \o PyStr(d.updated),
       <<"d", "a", "t", "e", ":", " ">> \o PyStr(d.date),
       <<"c", "a", "t", "e", "g", "o", "r", "i", "e", "s", ":", " ">> \o PyStr(d.categories) >>
    \o (IF d.tags # <<>>
        THEN << <<"t", "a", "g", "s", ":">> >> \o [i \in 1..Len(d.tags) |-> <<" ", " ", "-", " ">> \o d.tags[i]]
        ELSE <<>>)
    \o << <<"-", "-", "-">>, <<>> >>

\* C4 as stated: the rendered block is exactly the opening ---, the four
\* key lines in order, the tags block only when there are tags, the closing
\* --- directly after it, and one blank line.
C4_ExactLines ==
    Called(fm_res) => LinesOf(fm_res.val) = SpecifiedLines(data)

(***************************************************************************)
(* The parsed document: nodes of the BeautifulSoup tree                    *)
(***************************************************************************)

\* a node: name is the tag name (None for a NavigableString), class the class
\* attribute, text the node's text, href the href attribute, children the
\* child nodes of a paragraph, has_code and lines the td.code cell of a
\* figure and the texts of its span.line elements, rows the tr elements of
\* a table, each with the texts of its th and td cells
Node(name, class, text, href, children, has_code, lines, rows) ==
    [name |-> name, class |-> class, text |-> text, href |-> href,
     children |-> children, has_code |-> has_code, lines |-> lines, rows |-> rows]

TextNode(text) == Node(None, None, text, None, <<>>, FALSE, <<>>, <<>>)

Element(name, text) == Node(name, None, text, None, <<>>, FALSE, <<>>, <<>>)

Link(text, href) == Node(<<"a">>, None, text, href, <<>>, FALSE, <<>>, <<>>)

Paragraph(children) == Node(<<"p">>, None, <<>>, None, children, FALSE, <<>>, <<>>)

Figure(class, has_code, lines) ==
    Node(<<"f", "i", "g", "u", "r", "e">>, class, <<>>, None, <<>>, has_code, lines, <<>>)

Table(rows) == Node(<<"t", "a", "b", "l", "e">>, None, <<>>, None, <<>>, FALSE, <<>>, rows)

\* str(element): the text of a string node, the markup of a tag
Str(e) ==
    IF e.name = None THEN e.text
    ELSE IF e.name = <<"b", "r">> \/ e.name = <<"h", "r">> THEN <<"<">> \o e.name \o <<"/", ">">>
    ELSE <<"<">> \o e.name
           \o (IF e.href # None THEN <<" ", "h", "r", "e", "f", "=", "\"">> \o e.href \o <<"\"">> ELSE <<>>)
           \o <<">">> \o e.text \o <<"<", "/">> \o e.name \o <<">">>

(***************************************************************************)
(* handle_element and html_to_markdown                                     *)
(***************************************************************************)

\* the backquote character, which a TLA+ string cannot hold
BQ == "bq"

handle_element(element) ==
    IF element.name = <<"a">>
    THEN <<"[">> \o element.text \o <<"]", "(">> \o PyStr(element.href) \o <<")">>
    ELSE IF element.name = <<"c", "o", "d", "e">>
    THEN <<BQ>> \o element.text \o <<BQ>>
    ELSE IF StartsWith(Str(element), <<"<", "b", "r">>)
    THEN <<"\n", "\n">>
    ELSE Str(element)

\* '#' * n
RECURSIVE Hashes(_)
Hashes(n) == IF n <= 0 THEN <<>> ELSE <<"#">> \o Hashes(n - 1)

\* rows[1:]
Rest(s) == IF s = <<>> THEN <<>> ELSE Tail(s)

\* the th texts of all the rows, in document order
RECURSIVE AllHeaders(_)
AllHeaders(rows) ==
    IF rows = <<>> THEN <<>>
    ELSE [i \in 1..Len(rows[1].th) |-> Strip(rows[1].th[i])] \o AllHeaders(Tail(rows))

\* the Markdown lines of a table element
TableLines(elem) ==
    LET headers == AllHeaders(elem.rows)
        rows    == Rest(elem.rows)
    IN  << Join(<<" ", "|", " ">>, headers),
           Join(<<" ", "|", " ">>, [i \in 1..Len(headers) |-> <<"-", "-", "-">>]) >>
        \o [r \in 1..Len(rows) |->
               Join(<<" ", "|", " ">>, [i \in 1..Len(rows[r].td) |-> Strip(rows[r].td[i])])]

\* what one child of div.post-body adds to markdown, or the exception it raises
ConvertChild(elem) ==
    IF elem.name = <<"p">>
    THEN Ok(Concat([i \in 1..Len(elem.children) |-> handle_element(elem.children[i])])
              \o <<"\n", "\n">>)
    ELSE IF elem.name # None /\ elem.name # <<>> /\ elem.name[1] = "h"
    THEN IF Len(elem.name) < 2 THEN Raise("IndexError")
         ELSE IF ~IsDigit(elem.name[2]) THEN Raise("ValueError")
         ELSE Ok(Hashes(DigitVal(elem.name[2])) \o <<" ">> \o Strip(elem.text) \o <<"\n", "\n">>)
    ELSE IF elem.name = <<"f", "i", "g", "u", "r", "e">> /\ elem.class = <<"highlight", "plaintext">>
    THEN IF elem.has_code
         THEN Ok(<<"\n", BQ, BQ, BQ, "\n">>
                   \o Strip(Join(<<NL>>, [i \in 1..Len(elem.lines) |-> RStrip(elem.lines[i])]))
                   \o <<"\n", BQ, BQ, BQ, "\n">>)
         ELSE Ok(<<>>)
    ELSE IF elem.name = <<"t", "a", "b", "l", "e">>
    THEN Ok(Join(<<NL>>, TableLines(elem)) \o <<"\n", "\n">>)
    ELSE Ok(<<>>)

\* the loop over post_body.children from child i on, markdown so far given
RECURSIVE ConvertFrom(_, _, _)

\* the loop after child i has given r
Continue(r, children, i, markdown) ==
    IF ~r.ok THEN r ELSE ConvertFrom(children, i + 1, markdown \o r.val)

ConvertFrom(children, i, markdown) ==
    IF i > Len(children) THEN Ok(markdown)
    ELSE Continue(ConvertChild(children[i]), children, i, markdown)

\* return markdown.strip()
Stripped(r) == IF ~r.ok THEN r ELSE Ok(Strip(r.val))

\* soup.find("div", class_="post-body") when the document has no such div
NoBody == [found |-> FALSE, children |-> <<>>]

\* soup.find("div", class_="post-body") when it has one, with these children
Body(children) == [found |-> TRUE, children |-> children]

\* html_to_markdown of a document whose div.post-body is body
html_to_markdown(body) ==
    IF ~body.found THEN Ok(<<>>)
    ELSE Stripped(ConvertFrom(body.children, 1, <<>>))

(***************************************************************************)
(* Post bodies given to html_to_markdown                                   *)
(***************************************************************************)

MaxInline == 2

MaxChildren == 2

InlineNodes ==
    { TextNode(<<"h", "i", " ">>),
      TextNode(<<"<", "b", "r", ">", " ", "x">>),
      Link(<<"h", "e", "r", "e">>, <<"h", "t", "t", "p", ":", "/", "/", "x">>),
      Element(<<"c", "o", "d", "e">>, <<"f", "(", ")">>),
      Element(<<"b", "r">>, <<>>),
      Element(<<"s", "t", "r", "o", "n", "g">>, <<"b">>) }

Paragraphs(n) == { Paragraph(c) : c \in UNION {[1..k -> InlineNodes] : k \in 0..n} }

OtherBlocks ==
    { Element(<<"h", "2">>, <<" ", "I", "n", "t", "r", "o", " ">>),
      Element(<<"h", "6">>, <<"E", "n", "d">>),
      Element(<<"h", "r">>, <<>>),
      Element(<<"h", "e", "a", "d", "e", "r">>, <<"t">>),
      Element(<<"d", "i", "v">>, <<"d">>),
      Element(<<"u", "l">>, <<"u">>),
      TextNode(<<"\n">>),
      Figure(<<"highlight", "plaintext">>, TRUE, <<<<"a", " ">>, <<"b">>, <<"c", "\n">>>>),
      Figure(<<"highlight", "plaintext">>, FALSE, <<>>),
      Figure(<<"highlight", "python">>, TRUE, <<<<"a">>>>),
      Table(<< [th |-> <<<<"H", "1">>, <<"H", "2">>>>, td |-> <<>>],
               [th |-> <<>>, td |-> <<<<"1">>, <<" ", "2">>>>],
               [th |-> <<>>, td |-> <<<<"3">>, <<"4">>>>] >>) }

BlockNodes == Paragraphs(MaxInline) \cup OtherBlocks

PostBodies ==
    {NoBody} \cup { Body(c) : c \in UNION {[1..k -> BlockNodes] : k \in 0..MaxChildren} }

BodyInit ==
    /\ post_body \in PostBodies
    /\ md_res = NotCalled
    /\ BatchIdle /\ TimeIdle /\ RenderIdle

\* a call of html_to_markdown on a document with this post body
CallMarkdown ==
    /\ ~Called(md_res)
    /\ md_res' = html_to_markdown(post_body)
    /\ UNCHANGED <<post_body, batchVars, timeVars, renderVars>>

BodyNext == CallMarkdown

BodySpec == BodyInit /\ [][BodyNext]_vars

(***************************************************************************)
(* Claims about html_to_markdown                                           *)
(***************************************************************************)

HeadingNames == {<<"h", "1">>, <<"h", "2">>, <<"h", "3">>, <<"h", "4">>, <<"h", "5">>, <<"h", "6">>}

\* the element kinds the converter supports
Supported(e) ==
    \/ e.name = <<"p">>
    \/ e.name \in HeadingNames
    \/ e.name = <<"f", "i", "g", "u", "r", "e">> /\ e.class = <<"highlight", "plaintext">>
    \/ e.name = <<"t", "a", "b", "l", "e">>

\* C5 as stated: a child of an unsupported kind never raises and adds
\* nothing, so the result is that of the supported children alone.
C5_UnsupportedSkipped ==
    (Called(md_res) /\ post_body.found) =>
        /\ md_res.ok
        /\ md_res = html_to_markdown(Body(SelectSeq(post_body.children, Supported)))

\* the rule the specification gives for one child of a paragraph
SpecifiedInline(n) ==
    IF n.name = <<"a">> THEN <<"[">> \o n.text \o <<"]", "(">> \o n.href \o <<")">>
    ELSE IF n.name = <<"c", "o", "d", "e">> THEN <<BQ>> \o n.text \o <<BQ>>
    ELSE IF n.name = <<"b", "r">> THEN <<"\n", "\n">>
    ELSE Str(n)

SpecifiedParagraph(p) ==
    Concat([i \in 1..Len(p.children) |-> SpecifiedInline(p.children[i])]) \o <<"\n", "\n">>

\* C8 as stated: a body of paragraphs converts to the paragraphs' renderings,
\* each the concatenation of its children rendered by their one rule and
\* two newlines, trimmed as a whole.
C8_ParagraphByRule ==
    (Called(md_res) /\ post_body.found
        /\ \A i \in 1..Len(post_body.children) : post_body.children[i].name = <<"p">>) =>
        md_res = Ok(Strip(Concat([i \in 1..Len(post_body.children) |->
                                     SpecifiedParagraph(post_body.children[i])])))

(***************************************************************************)
(* process_html_file                                                       *)
(***************************************************************************)

\* the index of the last "/" of a path, 0 if it has none
LastSlash(p) ==
    IF \A i \in 1..Len(p) : p[i] # "/" THEN 0
    ELSE CHOOSE i \in 1..Len(p) : p[i] = "/" /\ \A j \in (i + 1)..Len(p) : p[j] # "/"

\* os.path.dirname(p)
dirname(p) == SubSeq(p, 1, LastSlash(p) - 1)

\* os.path.basename(p)
basename(p) == SubSeq(p, LastSlash(p) + 1, Len(p))

\* os.path.join(a, b) of a directory and a relative name
join(a, b) == a \o <<"/">> \o b

\* s.endswith(suffix)
EndsWith(s, suffix) ==
    Len(s) >= Len(suffix) /\ SubSeq(s, Len(s) - Len(suffix) + 1, Len(s)) = suffix

\* the target zone of both timestamp fields
TargetZone == "Asia/Shanghai"

\* front_matter = {}
EmptyFrontMatter ==
    [title |-> None, categories |-> None, updated |-> None, date |-> None, tags |-> <<>>]

\* front_matter once 'updated' and 'date' are converted: 'tags' is filled
FillTags(doc, title, updated, date) ==
    IF ~date.ok THEN date
    ELSE Ok([title |-> title, categories |-> doc.category,
             updated |-> updated.val, date |-> date.val, tags |-> doc.tags])

\* front_matter once 'updated' is converted: 'date' from the second meta element
FillDate(doc, title, updated, modified) ==
    IF ~updated.ok THEN updated
    ELSE IF modified = None THEN Raise("TypeError")
    ELSE FillTags(doc, title, updated, convert_utc_to_timezone(modified, TargetZone))

\* front_matter once 'title' is set: 'updated' from the first meta element
FillUpdated(doc, title, published, modified) ==
    IF published = None THEN Raise("TypeError")
    ELSE FillDate(doc, title, convert_utc_to_timezone(published, TargetZone), modified)

\* strict_front_matter with the placeholder title of extract_front_matter
strict_front_matter_untitled(doc) ==
    FillUpdated(doc, IF doc.title = None THEN <<"U", "n", "t", "i", "t", "l", "e", "d">>
                     ELSE Strip(doc.title),
                doc.pub, doc.mod)

\* strict_front_matter with the two meta elements exchanged
strict_front_matter_swapped(doc) ==
    IF doc.title = None THEN Raise("AttributeError")
    ELSE FillUpdated(doc, Strip(doc.title), doc.mod, doc.pub)

\* the front_matter dict process_html_file fills from the parsed document,
\* or the exception of the first lookup that fails
strict_front_matter(doc) ==
    IF doc.title = None THEN Raise("AttributeError")
    ELSE FillUpdated(doc, Strip(doc.title), doc.pub, doc.mod)

\* write_file that opens the file with mode 'a'
write_file_append(dir, name, content) ==
    [dir EXCEPT ![name] = (IF @ = None THEN <<>> ELSE @) \o content]

\* with open(output_path, 'w') as md_file: md_file.write(content)
write_file(dir, name, content) == [dir EXCEPT ![name] = content]

\* what a run of process_html_file leaves behind
Effect(ok, err, dir, prints, fm) ==
    [ok |-> ok, err |-> err, out_dir |-> dir, printed |-> prints, front_matter |-> fm]

\* the name of the output file: the name of the parent directory and .md
OutputFile(html_path) == basename(dirname(html_path)) \o <<".", "m", "d">>

\* the write and the print of process_html_file, which an exception in the
\* extraction or in the conversion of the body keeps from happening
WriteOutput(extracted, markdown_content, name, output_dir, dir, prints) ==
    IF ~extracted.ok
    THEN Effect(FALSE, extracted.err, dir, prints, EmptyFrontMatter)
    ELSE IF ~markdown_content.ok
    THEN Effect(FALSE, markdown_content.err, dir, prints, EmptyFrontMatter)
    ELSE Effect(TRUE, "none",
                write_file(dir, name, generate_front_matter(extracted.val)
                                         \o markdown_content.val),
                Append(prints, <<"C", "o", "n", "v", "e", "r", "s", "i", "o", "n", " ", "s", "u", "c", "c", "e", "s", "s", "f", "u", "l", ":", " ">>
                                 \o join(output_dir, name)),
                extracted.val)

\* WriteOutput with the output file opened before the conversion
WriteOutput_open_first(extracted, markdown_content, name, output_dir, dir, prints) ==
    IF ~extracted.ok
    THEN Effect(FALSE, extracted.err, write_file(dir, name, <<>>), prints, EmptyFrontMatter)
    ELSE IF ~markdown_content.ok
    THEN Effect(FALSE, markdown_content.err, write_file(dir, name, <<>>), prints,
                EmptyFrontMatter)
    ELSE WriteOutput(extracted, markdown_content, name, output_dir, dir, prints)

\* process_html_file that opens the output file before it converts
process_html_file_open_first(doc, html_path, output_dir, dir, prints) ==
    WriteOutput_open_first(strict_front_matter(doc), html_to_markdown(doc.body),
                           OutputFile(html_path), output_dir, dir, prints)

\* process_html_file(html_path, output_dir) on the parsed document doc, with
\* the output directory holding dir and prints printed so far
process_html_file(doc, html_path, output_dir, dir, prints) ==
    WriteOutput(strict_front_matter(doc), html_to_markdown(doc.body),
                OutputFile(html_path), output_dir, dir, prints)

(***************************************************************************)
(* The input tree of batch_convert_html_to_markdown                        *)
(***************************************************************************)

MaxFiles == 3

OutputDir == <<"o", "u", "t">>

\* a parsed page: the text of h1.post-title, the content of the
\* article:published_time and article:modified_time meta elements, the text
\* of the time element, the text of span[itemprop=name], the contents of the
\* article:tag meta elements and div.post-body; None where the page has none
PageA ==
    [title |-> <<"P", "o", "s", "t", " ", "A">>,
     pub |-> <<"2", "0", "2", "4", "-", "0", "6", "-", "1", "5", "T", "1", "0", ":", "3", "0", ":", "0", "0", "Z">>,
     mod |-> <<"2", "0", "2", "4", "-", "0", "6", "-", "1", "6", "T", "2", "0", ":", "0", "0", ":", "0", "0", ".", "0", "0", "0", "Z">>,
     time_tag |-> <<"2", "0", "2", "4", "-", "0", "6", "-", "1", "4">>,
     category |-> <<"T", "e", "c", "h">>,
     tags |-> <<<<"x">>, <<"y">>>>,
     body |-> Body(<< Element(<<"h", "2">>, <<"I", "n", "t", "r", "o">>),
                      Paragraph(<<TextNode(<<"s", "e", "e", " ">>), Link(<<"h", "e", "r", "e">>, <<"h", "t", "t", "p", ":", "/", "/", "x">>)>>) >>)]

PageB ==
    [title |-> <<" ", "B", " ">>,
     pub |-> <<"2", "0", "2", "3", "-", "1", "2", "-", "3", "1", "T", "1", "6", ":", "0", "0", ":", "0", "0", "Z">>,
     mod |-> <<"2", "0", "2", "4", "-", "0", "2", "-", "2", "9", "T", "2", "3", ":", "5", "9", ":", "5", "9", ".", "5", "Z">>,
     time_tag |-> None,
     category |-> None,
     tags |-> <<>>,
     body |-> NoBody]

\* the pages of the input tree, by a name for each
PageNames == {"A", "B", "NoTitle", "NoPub", "NoMod", "BadTime", "HrBody"}

\* the content of a file that is not a page
NoPage ==
    [title |-> None, pub |-> None, mod |-> None, time_tag |-> None,
     category |-> None, tags |-> <<>>, body |-> NoBody]

\* BeautifulSoup(f, 'html.parser') of the file with the named content
Page(name) ==
    CASE name = "A"       -> PageA
      [] name = "B"       -> PageB
      [] name = "NoTitle" -> [PageA EXCEPT !.title = None]
      [] name = "NoPub"   -> [PageA EXCEPT !.pub = None]
      [] name = "NoMod"   -> [PageA EXCEPT !.mod = None]
      [] name = "BadTime" -> [PageA EXCEPT !.mod = <<"2", "0", "2", "4", "-", "0", "6", "-", "1", "6", " ", "2", "0", ":", "0", "0", ":", "0", "0">>]
      [] name = "HrBody"  -> [PageA EXCEPT !.body = Body(<<Element(<<"h", "r">>, <<>>)>>)]
      [] OTHER            -> NoPage

\* the parsed document of a file of the input tree
Doc(f) == Page(f.page)

\* the directories of the input tree, by the name of the directory itself
Roots == { [parent |-> <<"a">>, root |-> <<"i", "n", "/", "a">>],
           [parent |-> <<"b">>, root |-> <<"i", "n", "/", "b">>],
           [parent |-> <<"a">>, root |-> <<"i", "n", "/", "x", "/", "a">>] }

\* the files os.walk can yield: a directory it visits, a file name, the content
HtmlFiles ==
    { [parent |-> r.parent, root |-> r.root, file |-> <<"i", "n", "d", "e", "x", ".", "h", "t", "m", "l">>, page |-> d] :
        r \in Roots, d \in PageNames }

OtherFiles ==
    { [parent |-> <<"a">>, root |-> <<"i", "n", "/", "a">>, file |-> <<"n", "o", "t", "e", "s", ".", "t", "x", "t">>, page |-> "none"] }

\* no path twice, and the files of one directory next to each other
WalkOrder(fs) ==
    /\ \A i, j \in 1..Len(fs) :
           (fs[i].root = fs[j].root /\ fs[i].file = fs[j].file) => i = j
    /\ \A i, j, k \in 1..Len(fs) :
           (i < j /\ j < k /\ fs[i].root = fs[k].root) => fs[j].root = fs[i].root

Walks ==
    { fs \in UNION {[1..k -> HtmlFiles \cup OtherFiles] : k \in 0..MaxFiles} : WalkOrder(fs) }

\* the names a file of the output directory can have
OutNames == { r.parent \o <<".", "m", "d">> : r \in Roots }

\* a name of the output directory with no file
Absent == None

EmptyDir == [n \in OutNames |-> Absent]

\* an output directory left by an earlier run
OldDir == [EmptyDir EXCEPT ![<<"a", ".", "m", "d">>] = <<"o", "l", "d">>]

(***************************************************************************)
(* batch_convert_html_to_markdown                                          *)
(***************************************************************************)

BatchInit ==
    /\ files \in Walks
    /\ idx = 1
    /\ pc = "start"
    /\ out_exists \in BOOLEAN
    /\ out_dir \in (IF out_exists THEN {EmptyDir, OldDir} ELSE {EmptyDir})
    /\ printed = <<>>
    /\ front_matter = EmptyFrontMatter
    /\ error = "none"
    /\ TimeIdle /\ RenderIdle /\ BodyIdle

\* if not os.path.exists(output_dir): os.makedirs(output_dir)
MakeOutputDir ==
    /\ pc = "start"
    /\ out_exists' = TRUE
    /\ pc' = "walk"
    /\ UNCHANGED <<files, idx, out_dir, printed, front_matter, error>>
    /\ UNCHANGED <<timeVars, renderVars, bodyVars>>

\* the file the loop is at
Current == files[idx]

AtFile == pc = "walk" /\ idx <= Len(files)

IsHtml(f) == EndsWith(f.file, <<".", "h", "t", "m", "l">>)

\* the run of process_html_file on the file the loop is at
CurrentEffect ==
    process_html_file(Doc(Current), join(Current.root, Current.file), OutputDir,
                      out_dir, printed)

\* a file whose name does not end in .html is passed over
SkipFile ==
    /\ AtFile
    /\ ~IsHtml(Current)
    /\ idx' = idx + 1
    /\ UNCHANGED <<files, pc, out_exists, out_dir, printed, front_matter, error>>
    /\ UNCHANGED <<timeVars, renderVars, bodyVars>>

\* the loop after process_html_file has returned
Returned(e) ==
    /\ e.ok
    /\ out_dir' = e.out_dir
    /\ printed' = e.printed
    /\ front_matter' = e.front_matter
    /\ idx' = idx + 1
    /\ UNCHANGED <<files, pc, out_exists, error>>

\* the program after process_html_file has raised
Raised(e) ==
    /\ ~e.ok
    /\ out_dir' = e.out_dir
    /\ printed' = e.printed
    /\ error' = e.err
    /\ pc' = "aborted"
    /\ UNCHANGED <<files, idx, out_exists, front_matter>>

\* Raised with the exception caught per file: the loop goes on
Raised_isolated(e) ==
    /\ ~e.ok
    /\ out_dir' = e.out_dir
    /\ printed' = e.printed
    /\ error' = e.err
    /\ idx' = idx + 1
    /\ UNCHANGED <<files, pc, out_exists, front_matter>>

\* process_html_file returns: the file is written and the loop goes on
ConvertFile ==
    /\ AtFile
    /\ IsHtml(Current)
    /\ Returned(CurrentEffect)
    /\ UNCHANGED <<timeVars, renderVars, bodyVars>>

\* FailFile with the failure caught per file: the loop goes on
FailFile_isolated ==
    /\ AtFile
    /\ IsHtml(Current)
    /\ Raised_isolated(CurrentEffect)
    /\ UNCHANGED <<timeVars, renderVars, bodyVars>>

\* process_html_file raises: the exception leaves the loop and the program
FailFile ==
    /\ AtFile
    /\ IsHtml(Current)
    /\ Raised(CurrentEffect)
    /\ UNCHANGED <<timeVars, renderVars, bodyVars>>

\* os.walk is exhausted
Finish ==
    /\ pc = "walk"
    /\ idx > Len(files)
    /\ pc' = "done"
    /\ UNCHANGED <<files, idx, out_exists, out_dir, printed, front_matter, error>>
    /\ UNCHANGED <<timeVars, renderVars, bodyVars>>

Next == MakeOutputDir \/ SkipFile \/ ConvertFile \/ FailFile \/ Finish

Spec == BatchInit /\ [][Next]_vars

(***************************************************************************)
(* Claims about the batch run                                              *)
(***************************************************************************)

\* the .html files the loop has been through
Visited == { i \in 1..Len(files) : i < idx /\ IsHtml(files[i]) }

\* the last file gone through that has the same parent directory name as file i
LastOfName(i) ==
    CHOOSE j \in Visited :
        /\ files[j].parent = files[i].parent
        /\ \A k \in Visited : files[k].parent = files[i].parent => k <= j

\* the Markdown document of a page: its front matter and its converted body
MarkdownDocument(doc) ==
    generate_front_matter(strict_front_matter(doc).val) \o html_to_markdown(doc.body).val

\* the name of the output file of a file of the input tree
OutputName(f) == f.parent \o <<".", "m", "d">>

\* C1: every file gone through is in the output directory under the name of
\* its parent directory; files of differently named parents have distinct
\* output files, and files of equally named parents have one, which holds
\* the document of the one processed last.
C1_LastWriteWins ==
    /\ \A i \in Visited :
           /\ OutputName(files[i]) \in OutNames
           /\ out_dir[OutputName(files[i])] = MarkdownDocument(Doc(files[LastOfName(i)]))
    /\ \A i, j \in Visited :
           (files[i].parent = files[j].parent) <=> (OutputName(files[i]) = OutputName(files[j]))
    /\ pc # "start" => out_exists

\* two files of equally named parents and different content were written, and
\* one of another parent
C1_Witness ==
    /\ pc = "done"
    /\ \E i, j, k \in Visited :
           /\ i < j
           /\ files[i].parent = files[j].parent
           /\ files[i].root # files[j].root
           /\ files[i].page # files[j].page
           /\ files[k].parent # files[i].parent
           /\ out_dir[OutputName(files[j])] = MarkdownDocument(Doc(files[j]))
           /\ out_dir[OutputName(files[k])] = MarkdownDocument(Doc(files[k]))

\* C2: the run is sequential and a failure ends it: the loop moves one file
\* at a time, a file that fails stops the run at that file, nothing happens
\* after that, and the files gone through before it keep their outputs.
C2_AbortOnFirstFailure ==
    /\ [](pc = "aborted" =>
            /\ idx <= Len(files) /\ IsHtml(files[idx]) /\ ~CurrentEffect.ok
            /\ Len(printed) = Cardinality(Visited)
            /\ \A i \in Visited : out_dir[OutputName(files[i])] # Absent)
    /\ [][ /\ pc # "aborted"
           /\ idx' # idx => (idx' = idx + 1 /\ pc' = "walk")
           /\ (AtFile /\ IsHtml(Current) /\ ~CurrentEffect.ok) =>
                  (pc' = "aborted" /\ idx' = idx)
           /\ (AtFile /\ IsHtml(Current) /\ CurrentEffect.ok) =>
                  (idx' = idx + 1 /\ Len(printed') = Len(printed) + 1
                     /\ out_dir'[OutputName(Current)] = MarkdownDocument(Doc(Current))) ]_vars

\* the run failed at a file after writing one, with a good page still to come
C2_Witness ==
    /\ pc = "aborted"
    /\ Visited # {}
    /\ idx < Len(files)
    /\ IsHtml(files[idx + 1])
    /\ files[idx + 1].page \in {"A", "B"}
    /\ out_dir[OutputName(files[idx + 1])] # MarkdownDocument(Doc(files[idx + 1]))

\* a page as it would be with a category and a tag
WithCategoryAndTags(doc) == [doc EXCEPT !.category = <<"T", "e", "c", "h">>, !.tags = <<<<"x">>>>]

\* C3: a page without title, published_time or modified_time fails; a page
\* that fails would fail with a category and tags as well; a page written
\* without category or tags has categories absent and tags empty.
C3_StrictExtraction ==
    [][ (AtFile /\ IsHtml(Current)) =>
          /\ (Doc(Current).title = None \/ Doc(Current).pub = None \/ Doc(Current).mod = None)
                 => pc' = "aborted"
          /\ pc' = "aborted" =>
                 ~process_html_file(WithCategoryAndTags(Doc(Current)),
                                    join(Current.root, Current.file), OutputDir,
                                    out_dir, printed).ok
          /\ pc' = "walk" =>
                 /\ front_matter'.categories = Doc(Current).category
                 /\ front_matter'.tags = Doc(Current).tags ]_vars

\* a page without category and tags was written, then a page without title failed
C3_Witness ==
    /\ pc = "aborted"
    /\ Doc(files[idx]).title = None
    /\ \E i \in Visited :
           /\ i = idx - 1
           /\ Doc(files[i]).category = None
           /\ Doc(files[i]).tags = <<>>
           /\ front_matter.categories = None
           /\ front_matter.tags = <<>>

\* the file whose front matter was written last
LastWritten == CHOOSE i \in Visited : \A j \in Visited : j <= i

\* C9: updated is the published_time value and date the modified_time value,
\* each as the Asia/Shanghai wall clock, eight hours later.
C9_UpdatedIsPublished ==
    Visited # {} =>
        LET doc == Doc(files[LastWritten])
        IN  /\ front_matter.updated = WallClock(EightHoursLater(FieldsOf(doc.pub)))
            /\ front_matter.date = WallClock(EightHoursLater(FieldsOf(doc.mod)))

\* a page was written whose publication and modification times differ
C9_Witness ==
    /\ Visited # {}
    /\ Doc(files[LastWritten]) = PageB
    /\ front_matter.updated = <<"2", "0", "2", "4", "-", "0", "1", "-", "0", "1", " ", "0", "0", ":", "0", "0", ":", "0", "0">>
    /\ front_matter.date = <<"2", "0", "2", "4", "-", "0", "3", "-", "0", "1", " ", "0", "7", ":", "5", "9", ":", "5", "9">>

\* C10: a file that fails leaves the output directory and the printed lines
\* as they were, and a line is printed only together with the write of the
\* file it names.
C10_FailureWritesNothing ==
    [][ /\ pc' = "aborted" =>
               (out_dir' = out_dir /\ printed' = printed /\ out_exists' = out_exists)
        /\ printed' # printed =>
               /\ AtFile /\ IsHtml(Current) /\ pc' = "walk"
               /\ printed' = Append(printed, <<"C", "o", "n", "v", "e", "r", "s", "i", "o", "n", " ", "s", "u", "c", "c", "e", "s", "s", "f", "u", "l", ":", " ", "o", "u", "t", "/">>
                                               \o OutputName(Current))
               /\ out_dir'[OutputName(Current)] = MarkdownDocument(Doc(Current)) ]_vars

\* a file failed in the body conversion after a file of an equally named
\* parent had been written
C10_Witness ==
    /\ pc = "aborted"
    /\ error = "ValueError"
    /\ strict_front_matter(Doc(files[idx])).ok
    /\ \E i \in Visited :
           /\ files[i].parent = files[idx].parent
           /\ out_dir[OutputName(files[idx])] = MarkdownDocument(Doc(files[i]))

====
